---- MODULE Spec2Model ----
(***************************************************************************)
(* Megascans library loader and node builders (src/MegascansData.py,       *)
(* src/Utilities.py, src/Build.py).                                        *)
(*                                                                         *)
(* Python dicts are TLA+ functions (DOMAIN d is the key set), lists are    *)
(* sequences, and a set turned into a list (list(formats)) is kept as a    *)
(* set: its order is the interpreter's hash order, which the code does not *)
(* fix.  Strings that the code takes apart (names, file URIs) are          *)
(* sequences of tokens; strings it only passes on are TLA+ strings.        *)
(* An exception is an outcome: a record whose exc field names it.          *)
(***************************************************************************)
EXTENDS Integers, Sequences, FiniteSets, TLC

VARIABLES
    assets_data,     \* <library>/Downloaded/assetsData.json: <<>> (no file) or <<entries>>
    sidecars,        \* <asset_path>/<id>.json files on disk: <<asset_path, id>> -> asset_data
    files,           \* the mesh and texture files that exist on disk (paths)
    hash_path,       \* <library>/megascans_user_data.hash: <<>> (no file) or <<digest>>
    user_data_path,  \* <library>/megascans_user_data.json: <<>> (no file) or <<mapping>>
    user_data,       \* the node's user data dict
    parm,            \* the node's parameters: name -> value
    background_images, \* network-editor pane -> its background images (paths)
    material_library,  \* the image nodes of <node>/material_library/kma_shader
    call,            \* what the last set_megascans_data call did
    arg,             \* the arguments of a direct call, or the kwargs of a callback
    ret              \* its outcome

vars == <<assets_data, sidecars, files, hash_path, user_data_path, user_data, parm,
          background_images, material_library, call, arg, ret>>

(***************************************************************************)
(* Bounds of the explored inputs.                                          *)
(***************************************************************************)
MaxMeshes == 2
MaxMaps == 3
MaxComponents == 2
MaxNameLen == 4
MaxAssets == 2
MaxImages == 2

(***************************************************************************)
(* dict helpers                                                            *)
(***************************************************************************)
EmptyDict == [k \in {} |-> k]

\* d[k] = v
Put(d, k, v) == [x \in (DOMAIN d) \cup {k} |-> IF x = k THEN v ELSE d[x]]

\* d.setdefault(k, v), as the dict it leaves
SetDefault(d, k, v) == IF k \in DOMAIN d THEN d ELSE Put(d, k, v)

\* d.get(k, default)
Get(d, k, default) == IF k \in DOMAIN d THEN d[k] ELSE default

\* the elements of a list
Range(s) == {s[i] : i \in 1..Len(s)}

\* the lists over S of length 0..n
SeqUpTo(S, n) == UNION {[1..m -> S] : m \in 0..n}

(***************************************************************************)
(* File URIs, as token sequences.  ".", "_" and "/" are the separators the *)
(* code looks for; a letter run is one token.                              *)
(***************************************************************************)
Upper(t) ==
    CASE t \in {"high", "High", "HIGH"} -> "HIGH"
      [] t \in {"lod0", "LOD0"} -> "LOD0"
      [] t \in {"lod1", "LOD1"} -> "LOD1"
      [] t \in {"lod", "LOD"} -> "LOD"
      [] t \in {"rock", "ROCK"} -> "ROCK"
      [] t \in {"var", "VAR"} -> "VAR"
      [] t \in {"fbx", "FBX"} -> "FBX"
      [] t \in {"abc", "ABC"} -> "ABC"
      [] OTHER -> t

Lower(t) ==
    CASE t \in {"high", "High", "HIGH"} -> "high"
      [] t \in {"lod0", "LOD0"} -> "lod0"
      [] t \in {"lod1", "LOD1"} -> "lod1"
      [] t \in {"lod", "LOD"} -> "lod"
      [] t \in {"rock", "ROCK"} -> "rock"
      [] t \in {"var", "VAR"} -> "var"
      [] t \in {"fbx", "FBX"} -> "fbx"
      [] t \in {"abc", "ABC"} -> "abc"
      [] OTHER -> t

\* str.upper() / str.lower()
upper(s) == [i \in 1..Len(s) |-> Upper(s[i])]
lower(s) == [i \in 1..Len(s) |-> Lower(s[i])]

\* the tokens r"(high|lod\d)" matches
LodPattern == {"high", "lod0", "lod1"}

\* re.findall(r"(high|lod\d)", s): the matches, left to right
findall_lod(s) == SelectSeq(s, LAMBDA t : t \in LodPattern)

\* the positions of token t in s
Positions(s, t) == {i \in 1..Len(s) : s[i] = t}

Max(S) == CHOOSE m \in S : \A n \in S : n <= m
Min(S) == CHOOSE m \in S : \A n \in S : m <= n

\* needle in haystack (str.__contains__)
Contains(haystack, needle) ==
    \E i \in 0..(Len(haystack) - Len(needle)) :
        \A j \in 1..Len(needle) : haystack[i + j] = needle[j]

\* Path(asset_path) / uri, as_posix()
Path(asset_path, uri) == <<asset_path, uri>>

\* Path.exists()
Exists(disk, file_path) == file_path \in disk

\* file_path.suffix.lstrip("."): the text after the last dot of the last
\* path component, "" when that component has no dot, or only a leading or
\* a trailing one
suffix(uri) ==
    LET slashes == Positions(uri, "/")
        start == IF slashes = {} THEN 1 ELSE Max(slashes) + 1
        name == SubSeq(uri, start, Len(uri))
        dots == Positions(name, ".")
    IN  IF dots = {} \/ Max(dots) = 1 \/ Max(dots) = Len(name)
        THEN <<>>
        ELSE SubSeq(name, Max(dots) + 1, Len(name))

(***************************************************************************)
(* resolve_3d: LODs and formats of a "3d" asset                            *)
(***************************************************************************)
\* resolve_3d_uri taking the last match of the pattern for the label
resolve_3d_uri_last_match(asset_path, uri, disk, st) ==
    LET file_path == Path(asset_path, uri)
        lod_match == findall_lod(lower(uri))
    IN  IF Exists(disk, file_path) /\ lod_match # <<>>
        THEN LET lod == <<Upper(lod_match[Len(lod_match)])>>
                 d == SetDefault(st.mesh_dict, lod, <<>>)
             IN  [st EXCEPT !.formats = @ \cup {suffix(uri)},
                            !.mesh_dict = Put(d, lod, Append(d[lod], file_path))]
        ELSE st

\* one URI of one mesh (the body of the inner for loop)
resolve_3d_uri(asset_path, uri, disk, st) ==
    LET file_path == Path(asset_path, uri)
        lod_match == findall_lod(lower(uri))
    IN  IF Exists(disk, file_path) /\ lod_match # <<>>
        THEN LET lod == <<Upper(lod_match[1])>>
                 d == SetDefault(st.mesh_dict, lod, <<>>)
             IN  [st EXCEPT !.formats = @ \cup {suffix(uri)},
                            !.mesh_dict = Put(d, lod, Append(d[lod], file_path))]
        ELSE st

RECURSIVE resolve_3d_uris(_, _, _, _)
resolve_3d_uris(asset_path, uris, disk, st) ==
    IF uris = <<>> \/ st.exc # "" THEN st
    ELSE IF "uri" \notin DOMAIN Head(uris)
         THEN [st EXCEPT !.exc = "KeyError"]
         ELSE resolve_3d_uris(asset_path, Tail(uris), disk,
                              resolve_3d_uri(asset_path, Head(uris).uri, disk, st))

RECURSIVE resolve_3d_meshes(_, _, _, _)
resolve_3d_meshes(asset_path, meshes, disk, st) ==
    IF meshes = <<>> \/ st.exc # "" THEN st
    ELSE LET mesh == Head(meshes)
             \* mesh.get("uris") or [mesh]
             uris == IF Get(mesh, "uris", <<>>) # <<>> THEN mesh.uris ELSE <<mesh>>
         IN  resolve_3d_meshes(asset_path, Tail(meshes), disk,
                               resolve_3d_uris(asset_path, uris, disk, st))

\* resolve_3d recording the format of every existing file, matched or not
resolve_3d_all_formats(asset_path, asset_data, disk) ==
    LET st0 == [exc |-> "", mesh_dict |-> EmptyDict, formats |-> {}]
        key == IF Get(asset_data, "meshes", <<>>) # <<>> THEN "meshes" ELSE "models"
        st == IF key \notin DOMAIN asset_data THEN st0
              ELSE resolve_3d_meshes(asset_path, asset_data[key], disk, st0)
        declared == UNION {IF Get(m, "uris", <<>>) # <<>>
                           THEN {u.uri : u \in Range(m.uris)}
                           ELSE IF "uri" \in DOMAIN m THEN {m.uri} ELSE {}
                           : m \in Range(Get(asset_data, key, <<>>))}
    IN  IF st.exc # "" THEN st
        ELSE [st EXCEPT !.formats =
                 {suffix(u) : u \in {v \in declared : Exists(disk, Path(asset_path, v))}}]

resolve_3d(asset_path, asset_data, disk) ==
    LET st0 == [exc |-> "", mesh_dict |-> EmptyDict, formats |-> {}]
        key == IF Get(asset_data, "meshes", <<>>) # <<>> THEN "meshes" ELSE "models"
    IN  IF key \notin DOMAIN asset_data THEN st0
        ELSE resolve_3d_meshes(asset_path, asset_data[key], disk, st0)

(***************************************************************************)
(* resolve_3dplant: LODs and formats of a "3dplant" asset                  *)
(***************************************************************************)
\* geo.rsplit("_", maxsplit=1)[1].split(".")[0]; only called with a "_" in geo
plant_lod_text(geo) ==
    LET rest == SubSeq(geo, Max(Positions(geo, "_")) + 1, Len(geo))
        dots == Positions(rest, ".")
    IN  IF dots = {} THEN rest ELSE SubSeq(rest, 1, Min(dots) - 1)

resolve_3dplant_model(asset_path, model, disk, st) ==
    LET file_path == Path(asset_path, model.uri)
        geo == model.uri
    IN  IF "uri" \notin DOMAIN model THEN [st EXCEPT !.exc = "KeyError"]
        ELSE IF ~Exists(disk, file_path) THEN st
        ELSE IF Positions(geo, "_") = {} THEN [st EXCEPT !.exc = "IndexError"]
        ELSE LET lod == upper(plant_lod_text(geo))
                 st1 == [st EXCEPT !.formats = @ \cup {suffix(model.uri)}]
             IN  IF Contains(upper(model.uri), lod)
                 THEN LET d == IF lod \notin DOMAIN st1.mesh_dict
                               THEN Put(st1.mesh_dict, lod, <<>>)
                               ELSE st1.mesh_dict
                      IN  [st1 EXCEPT !.mesh_dict = Put(d, lod, d[lod] \o <<file_path>>)]
                 ELSE st1

RECURSIVE resolve_3dplant_models(_, _, _, _)
resolve_3dplant_models(asset_path, models, disk, st) ==
    IF models = <<>> \/ st.exc # "" THEN st
    ELSE resolve_3dplant_models(asset_path, Tail(models), disk,
                                resolve_3dplant_model(asset_path, Head(models), disk, st))

resolve_3dplant(asset_path, asset_data, disk) ==
    LET st0 == [exc |-> "", mesh_dict |-> EmptyDict, formats |-> {}]
    IN  IF "models" \notin DOMAIN asset_data THEN [st0 EXCEPT !.exc = "KeyError"]
        ELSE resolve_3dplant_models(asset_path, asset_data.models, disk, st0)

(***************************************************************************)
(* Textures of a "3d" asset                                                *)
(***************************************************************************)
\* resolve_3d_tx_map with the channel's record replaced by each map of its name
resolve_3d_tx_map_overwrite(asset_path_obj, tx_map, disk, tx_dict) ==
    LET file_path == Path(asset_path_obj, tx_map.uri)
        name == tx_map.name
        resolution == tx_map.resolution
    IN  IF ~Exists(disk, file_path) THEN tx_dict
        ELSE LET old == Get(tx_dict, name, [resolution |-> EmptyDict]).resolution
                 r == SetDefault(old, resolution, <<>>)
             IN  Put(tx_dict, name,
                     [type |-> tx_map.type,
                      colorSpace |-> tx_map.colorSpace,
                      resolution |-> Put(r, resolution, Append(r[resolution], file_path))])

\* one map of the maps list (the body of the for loop)
resolve_3d_tx_map(asset_path_obj, tx_map, disk, tx_dict) ==
    LET file_path == Path(asset_path_obj, tx_map.uri)
        name == tx_map.name
        resolution == tx_map.resolution
    IN  IF ~Exists(disk, file_path) THEN tx_dict
        ELSE LET d == SetDefault(tx_dict, name,
                                 [type |-> tx_map.type,
                                  colorSpace |-> tx_map.colorSpace,
                                  resolution |-> EmptyDict])
                 r == SetDefault(d[name].resolution, resolution, <<>>)
             IN  [d EXCEPT ![name].resolution =
                               Put(r, resolution, Append(r[resolution], file_path))]

RECURSIVE resolve_3d_tx_maps_loop(_, _, _, _)
resolve_3d_tx_maps_loop(asset_path_obj, maps, disk, tx_dict) ==
    IF maps = <<>> THEN tx_dict
    ELSE resolve_3d_tx_maps_loop(asset_path_obj, Tail(maps), disk,
                                 resolve_3d_tx_map(asset_path_obj, Head(maps), disk, tx_dict))

resolve_3d_tx_maps(asset_path_obj, maps, disk) ==
    resolve_3d_tx_maps_loop(asset_path_obj, maps, disk, EmptyDict)

\* the list comprehension over resolution_data["formats"]
component_textures(asset_path_obj, formats, disk) ==
    LET existing == SelectSeq(formats,
                        LAMBDA tx_format : Exists(disk, Path(asset_path_obj, tx_format.uri)))
    IN  [i \in 1..Len(existing) |-> Path(asset_path_obj, existing[i].uri)]

RECURSIVE component_resolutions(_, _, _, _)
component_resolutions(asset_path_obj, resolutions, disk, texture_paths) ==
    IF resolutions = <<>> THEN texture_paths
    ELSE LET resolution_data == Head(resolutions)
             textures == component_textures(asset_path_obj,
                                            Get(resolution_data, "formats", <<>>), disk)
         IN  component_resolutions(asset_path_obj, Tail(resolutions), disk,
                 IF textures # <<>>
                 THEN Put(texture_paths, resolution_data.resolution, textures)
                 ELSE texture_paths)

RECURSIVE component_uris(_, _, _, _)
component_uris(asset_path_obj, uris, disk, texture_paths) ==
    IF uris = <<>> THEN texture_paths
    ELSE component_uris(asset_path_obj, Tail(uris), disk,
             component_resolutions(asset_path_obj, Get(Head(uris), "resolutions", <<>>),
                                   disk, texture_paths))

RECURSIVE resolve_3d_tx_components_loop(_, _, _, _)
resolve_3d_tx_components_loop(asset_path_obj, components, disk, tx_dict) ==
    IF components = <<>> THEN tx_dict
    ELSE LET component == Head(components)
             texture_paths == component_uris(asset_path_obj, Get(component, "uris", <<>>),
                                             disk, EmptyDict)
         IN  resolve_3d_tx_components_loop(asset_path_obj, Tail(components), disk,
                 IF texture_paths # EmptyDict
                 THEN Put(tx_dict, component.name,
                          [type |-> component.type,
                           colorSpace |-> component.colorSpace,
                           resolution |-> texture_paths])
                 ELSE tx_dict)

resolve_3d_tx_components(asset_path_obj, components, disk) ==
    resolve_3d_tx_components_loop(asset_path_obj, components, disk, EmptyDict)

\* resolve_3d_tx adding the components' channels to those of the maps
resolve_3d_tx_merged(asset_path, asset_data, disk) ==
    LET tx_dict == resolve_3d_tx_maps(asset_path, Get(asset_data, "maps", <<>>), disk)
        c == resolve_3d_tx_components(asset_path, Get(asset_data, "components", <<>>), disk)
    IN  [n \in (DOMAIN tx_dict) \cup (DOMAIN c) |->
            IF n \in DOMAIN tx_dict THEN tx_dict[n] ELSE c[n]]

resolve_3d_tx(asset_path, asset_data, disk) ==
    LET tx_dict == resolve_3d_tx_maps(asset_path, Get(asset_data, "maps", <<>>), disk)
    IN  IF tx_dict # EmptyDict THEN tx_dict
        ELSE resolve_3d_tx_components(asset_path, Get(asset_data, "components", <<>>), disk)

(***************************************************************************)
(* Textures of a "3dplant" asset                                           *)
(***************************************************************************)
\* one map of asset_data["maps"] (the body of the for loop)
resolve_3dplant_tx_map(asset_path, tx_map, disk, tx_dict) ==
    LET file_path == Path(asset_path, tx_map.uri)
    IN  IF Exists(disk, file_path)
        THEN LET textures == Append(<<>>, file_path)
                 texture_paths == Put(EmptyDict, tx_map.resolution, textures)
             IN  Put(tx_dict, tx_map.name,
                     [type |-> tx_map.type,
                      colorSpace |-> tx_map.colorSpace,
                      resolution |-> texture_paths])
        ELSE tx_dict

RECURSIVE resolve_3dplant_tx_loop(_, _, _, _)
resolve_3dplant_tx_loop(asset_path, maps, disk, tx_dict) ==
    IF maps = <<>> THEN tx_dict
    ELSE resolve_3dplant_tx_loop(asset_path, Tail(maps), disk,
                                 resolve_3dplant_tx_map(asset_path, Head(maps), disk, tx_dict))

\* [exc, tx_dict]: asset_data["maps"] raises KeyError when the key is missing
resolve_3dplant_tx(asset_path, asset_data, disk) ==
    IF "maps" \notin DOMAIN asset_data
    THEN [exc |-> "KeyError", tx_dict |-> EmptyDict]
    ELSE [exc |-> "",
          tx_dict |-> resolve_3dplant_tx_loop(asset_path, asset_data.maps, disk, EmptyDict)]

(***************************************************************************)
(* resolve_assets: the outcome is [exc |-> <exception>] or the returned    *)
(* tuple [exc |-> "", textures, lods, formats]                             *)
(***************************************************************************)
Raise(e) == [exc |-> e]

Return(asset_textures, asset_lods, asset_formats) ==
    [exc |-> "", textures |-> asset_textures, lods |-> asset_lods, formats |-> asset_formats]

\* resolve_assets looking at the type before the sidecar
resolve_assets_type_first(asset_type, asset_id, asset_path, jsons, disk) ==
    LET asset_metadata_path == <<asset_path, asset_id>>
    IN  IF asset_type \notin {"3d", "3dplant"} THEN Raise("ValueError")
        ELSE IF asset_metadata_path \notin DOMAIN jsons THEN Raise("FileNotFoundError")
        ELSE LET asset_data == jsons[asset_metadata_path]
             IN  IF asset_type = "3d"
                 THEN LET m == resolve_3d(asset_path, asset_data, disk)
                      IN  IF m.exc # "" THEN Raise(m.exc)
                          ELSE Return(resolve_3d_tx(asset_path, asset_data, disk),
                                      m.mesh_dict, m.formats)
                 ELSE LET t == resolve_3dplant_tx(asset_path, asset_data, disk)
                          m == resolve_3dplant(asset_path, asset_data, disk)
                      IN  IF t.exc # "" THEN Raise(t.exc)
                          ELSE IF m.exc # "" THEN Raise(m.exc)
                          ELSE Return(t.tx_dict, m.mesh_dict, m.formats)

resolve_assets(asset_type, asset_id, asset_path, jsons, disk) ==
    LET asset_metadata_path == <<asset_path, asset_id>>
    IN  IF asset_metadata_path \notin DOMAIN jsons THEN Raise("FileNotFoundError")
        ELSE LET asset_data == jsons[asset_metadata_path]
             IN  IF asset_type = "3d"
                 THEN LET asset_textures == resolve_3d_tx(asset_path, asset_data, disk)
                          m == resolve_3d(asset_path, asset_data, disk)
                      IN  IF m.exc # "" THEN Raise(m.exc)
                          ELSE Return(asset_textures, m.mesh_dict, m.formats)
                 ELSE IF asset_type = "3dplant"
                 THEN LET t == resolve_3dplant_tx(asset_path, asset_data, disk)
                          m == resolve_3dplant(asset_path, asset_data, disk)
                      IN  IF t.exc # "" THEN Raise(t.exc)
                          ELSE IF m.exc # "" THEN Raise(m.exc)
                          ELSE Return(t.tx_dict, m.mesh_dict, m.formats)
                 ELSE Raise("ValueError")

(***************************************************************************)
(* Strings of the root manifest                                            *)
(***************************************************************************)
Whitespace == {" ", "\t"}

\* str.split(): the maximal runs of non-whitespace characters
RECURSIVE split(_, _, _)
split(s, word, words) ==
    IF s = <<>> THEN (IF word = <<>> THEN words ELSE Append(words, word))
    ELSE IF Head(s) \in Whitespace
         THEN split(Tail(s), <<>>, IF word = <<>> THEN words ELSE Append(words, word))
         ELSE split(Tail(s), Append(word, Head(s)), words)

\* sep.join(words)
RECURSIVE join(_, _)
join(sep, words) ==
    IF words = <<>> THEN <<>>
    ELSE IF Len(words) = 1 THEN words[1]
    ELSE words[1] \o <<sep>> \o join(sep, Tail(words))

\* f"{asset_type}::{asset_name}::{asset_id}"
asset_key(asset_type, asset_name, asset_id) ==
    <<asset_type, "::">> \o asset_name \o <<"::", asset_id>>

\* json.dumps / json.loads: the text of a value, and the value of a text
json_dumps(v) == <<"json", v>>
json_loads(text) == text[2]

\* the digest of the sorted-key JSON of the root manifest
sha256(manifest) == <<"sha256", json_dumps(manifest)>>

(***************************************************************************)
(* set_megascans_data: the loop over the manifest entries.  st is          *)
(* [exc, megascans_data, resolved]; resolved lists the asset ids handed to *)
(* resolve_assets, in call order.                                          *)
(***************************************************************************)
\* set_megascans_data_entry keeping the first record of a key
set_megascans_data_entry_first_wins(library_path, data, jsons, disk, st) ==
    LET asset_name == join("_", split(data.name, <<>>, <<>>))
        asset_path == library_path \o <<"Downloaded">> \o data.path
        r == resolve_assets(data.type, data.id, asset_path, jsons, disk)
        st1 == [st EXCEPT !.resolved = Append(@, data.id)]
    IN  IF data.preview = <<>> THEN [st EXCEPT !.exc = "IndexError"]
        ELSE IF r.exc # "" THEN [st1 EXCEPT !.exc = r.exc]
        ELSE [st1 EXCEPT !.megascans_data =
                 SetDefault(@, asset_key(data.type, asset_name, data.id),
                            [name |-> asset_name, id |-> data.id, path |-> asset_path,
                             type |-> data.type, formats |-> r.formats, lods |-> r.lods,
                             textures |-> r.textures,
                             preview |-> Path(asset_path, <<data.preview[Len(data.preview)]>>),
                             tags |-> data.tags])]

set_megascans_data_entry(library_path, data, jsons, disk, st) ==
    LET asset_name == join("_", split(data.name, <<>>, <<>>))
        asset_type == data.type
        asset_id == data.id
        asset_path == library_path \o <<"Downloaded">> \o data.path
    IN  IF data.preview = <<>> THEN [st EXCEPT !.exc = "IndexError"]
        ELSE LET preview_image_path == Path(asset_path, <<data.preview[Len(data.preview)]>>)
                 r == resolve_assets(asset_type, asset_id, asset_path, jsons, disk)
                 st1 == [st EXCEPT !.resolved = Append(@, asset_id)]
             IN  IF r.exc # "" THEN [st1 EXCEPT !.exc = r.exc]
                 ELSE LET metadata == [name |-> asset_name,
                                       id |-> asset_id,
                                       path |-> asset_path,
                                       type |-> asset_type,
                                       formats |-> r.formats,
                                       lods |-> r.lods,
                                       textures |-> r.textures,
                                       preview |-> preview_image_path,
                                       tags |-> data.tags]
                      IN  [st1 EXCEPT !.megascans_data =
                               Put(@, asset_key(asset_type, asset_name, asset_id), metadata)]

RECURSIVE set_megascans_data_loop(_, _, _, _, _)
set_megascans_data_loop(library_path, entries, jsons, disk, st) ==
    IF entries = <<>> \/ st.exc # "" THEN st
    ELSE set_megascans_data_loop(library_path, Tail(entries), jsons, disk,
             set_megascans_data_entry(library_path, Head(entries), jsons, disk, st))

\* lines 21-66: the mapping built from the manifest file, when there is one
build_megascans_data(library_path, manifest_file, jsons, disk) ==
    LET st0 == [exc |-> "", megascans_data |-> EmptyDict, resolved |-> <<>>]
    IN  IF manifest_file # <<>>
        THEN set_megascans_data_loop(library_path, manifest_file[1], jsons, disk, st0)
        ELSE st0

\* set_user_data destroying the old entry only when there is a new one
set_user_data_keep_old(node_user_data, megascans_data) ==
    IF megascans_data # EmptyDict
    THEN Put(node_user_data, "megascans_user_data", json_dumps(megascans_data))
    ELSE node_user_data

\* the node's user data after set_user_data
set_user_data(node_user_data, megascans_data) ==
    LET destroyed == [k \in (DOMAIN node_user_data) \ {"megascans_user_data"}
                          |-> node_user_data[k]]
    IN  IF megascans_data # EmptyDict
        THEN Put(destroyed, "megascans_user_data", json_dumps(megascans_data))
        ELSE destroyed

(***************************************************************************)
(* Utilities: preview image and asset info.  The callers hand these        *)
(* functions their kwargs where the definitions name the parameter node;   *)
(* they act on the node.  None is <<>>, a value v is <<v>>.                *)
(***************************************************************************)
\* the items of the megascans_asset menu, which the node builds from its user data
menu_items(node_user_data) ==
    {<<"-----">>} \cup
    (IF "megascans_user_data" \in DOMAIN node_user_data
     THEN DOMAIN json_loads(node_user_data["megascans_user_data"])
     ELSE {})

\* <<preview, old_preview>>
get_asset_preview(parms, megascans_user_data) ==
    LET selected == parms["megascans_asset"]
        preview == IF megascans_user_data # <<>>
                      /\ megascans_user_data[1] # EmptyDict
                      /\ selected \in DOMAIN megascans_user_data[1]
                   THEN <<megascans_user_data[1][selected].preview>>
                   ELSE <<>>
        asset_metadata == parms["asset_info"]
    IN  IF asset_metadata = <<>> THEN <<preview, <<>> >>
        ELSE <<preview, <<json_loads(asset_metadata[1]).preview>> >>

add_background_image(images, preview) == Append(images, preview)

\* remove_background_image taking out only the first image of that path
remove_background_image_first(images, preview) ==
    LET at == {i \in 1..Len(images) : <<images[i]>> = preview}
    IN  IF at = {} THEN images
        ELSE SubSeq(images, 1, Min(at) - 1) \o SubSeq(images, Min(at) + 1, Len(images))

remove_background_image(images, preview) ==
    SelectSeq(images, LAMBDA img : <<img>> # preview)

\* the panes' images after show_background_image(node): the mapping is read
\* from user_data_path when that file exists
show_background_image(parms, images, user_data_file) ==
    LET megascans_user_data == IF user_data_file # <<>>
                               THEN <<json_loads(user_data_file[1])>> ELSE <<>>
        p == get_asset_preview(parms, megascans_user_data)
        preview == p[1]
        old_preview == p[2]
    IN  [pane \in DOMAIN images |->
            IF parms["show_background_image"] = 1
            THEN LET removed == IF old_preview # <<>>
                                THEN remove_background_image(images[pane], old_preview)
                                ELSE images[pane]
                 IN  IF preview # <<>> THEN add_background_image(removed, preview[1])
                     ELSE removed
            ELSE remove_background_image(images[pane], preview)]

\* the parameters after dump_info(node, megascans_data)
dump_info(parms, megascans_data) ==
    LET reverted == [parms EXCEPT !["asset_info"] = <<>>]
        selected == parms["megascans_asset"]
    IN  IF megascans_data = EmptyDict \/ selected = <<"-----">> THEN reverted
        ELSE LET asset_metadata == megascans_data[selected]
                 lods_lower == {lower(x) : x \in DOMAIN asset_metadata.lods}
             IN  [reverted EXCEPT
                     !["has_high"] = IF <<"high">> \in lods_lower THEN 1 ELSE 0,
                     !["asset_info"] = <<json_dumps(asset_metadata)>>]

(***************************************************************************)
(* The handler: set_megascans_data(kwargs, library_path)                   *)
(***************************************************************************)
LibraryPath == <<"lib">>

NoCall ==
    [done |-> FALSE, exc |-> "", manifest |-> <<>>, megascans_data |-> EmptyDict,
     resolved |-> <<>>, unchanged |-> FALSE, had_entry |-> FALSE]

Pending == [exc |-> "pending"]

set_megascans_data ==
    LET st == build_megascans_data(LibraryPath, assets_data, sidecars, files)
        \* the manifest hashes as the one the previous, completed, call read
        unchanged == /\ call.done /\ call.exc = ""
                     /\ call.manifest # <<>> /\ assets_data # <<>>
                     /\ sha256(call.manifest[1]) = sha256(assets_data[1])
    IN  /\ call' = [done |-> TRUE, exc |-> st.exc, manifest |-> assets_data,
                    megascans_data |-> st.megascans_data, resolved |-> st.resolved,
                    unchanged |-> unchanged,
                    had_entry |-> "megascans_user_data" \in DOMAIN user_data]
        /\ IF st.exc # ""
           THEN UNCHANGED <<user_data, parm, background_images>>
           ELSE /\ user_data' = set_user_data(user_data, st.megascans_data)
                /\ \E selected \in menu_items(set_user_data(user_data, st.megascans_data)) :
                       LET parms == [parm EXCEPT !["megascans_asset"] = selected]
                       IN  /\ background_images' =
                                  show_background_image(parms, background_images,
                                                        user_data_path)
                           /\ parm' = dump_info(parms, st.megascans_data)
        /\ UNCHANGED <<assets_data, sidecars, files, hash_path, user_data_path,
                       material_library, arg, ret>>

\* a direct call of resolve_assets on the files on disk
resolve_assets_call ==
    /\ ret = Pending
    /\ ret' = resolve_assets(arg.asset_type, arg.asset_id, arg.asset_path, sidecars, files)
    /\ UNCHANGED <<assets_data, sidecars, files, hash_path, user_data_path, user_data,
                   parm, background_images, material_library, call, arg>>

(***************************************************************************)
(* Inputs                                                                  *)
(***************************************************************************)
Panes == {"pane1"}

NodeInit ==
    /\ user_data = EmptyDict
    /\ parm = [megascans_asset |-> <<"-----">>, show_background_image |-> 1,
               asset_info |-> <<>>, has_high |-> 0]
    /\ background_images = [pane \in Panes |-> <<>>]
    /\ material_library = {}
    /\ call = NoCall

LibraryInit ==
    /\ assets_data = <<>>
    /\ hash_path = <<>>
    /\ user_data_path = <<>>

AssetPath == LibraryPath \o <<"Downloaded", "3d", "asset">>
AssetId == "id1"

MeshUris ==
    { <<"rock", "_", "LOD0", ".", "fbx">>,
      <<"rock", "_", "High", ".", "abc">>,
      <<"lod1", "_", "high", ".", "fbx">>,
      <<"rock", ".", "fbx">>,
      <<"var", "_", "lod", "/", "rock">> }

MeshEntries ==
    {[uri |-> u] : u \in MeshUris}
    \cup {[uris |-> <<[uri |-> <<"rock", "_", "LOD0", ".", "fbx">>],
                      [uri |-> <<"rock", "_", "High", ".", "abc">>]>>],
          [uris |-> <<[uri |-> <<"lod1", "_", "high", ".", "fbx">>]>>],
          [uris |-> <<>>, uri |-> <<"rock", "_", "LOD0", ".", "fbx">>],
          [uris |-> <<>>]}

MeshLists == SeqUpTo(MeshEntries, MaxMeshes)

MeshAssetData ==
    {[maps |-> <<>>]}
    \cup {[maps |-> <<>>, meshes |-> s] : s \in MeshLists}
    \cup {[maps |-> <<>>, models |-> s] : s \in MeshLists}
    \cup {[maps |-> <<>>, meshes |-> <<>>, models |-> s] : s \in MeshLists}

InitMesh ==
    /\ NodeInit /\ LibraryInit
    /\ arg \in [asset_type : {"3d", "3dplant", "surface"}, asset_id : {AssetId},
                asset_path : {AssetPath}]
    /\ sidecars \in {EmptyDict} \cup {(<<AssetPath, AssetId>> :> d) : d \in MeshAssetData}
    /\ files \in SUBSET {Path(AssetPath, u) : u \in MeshUris}
    /\ ret = Pending

NextMesh == resolve_assets_call

SpecMesh == InitMesh /\ [][NextMesh]_vars

(***************************************************************************)
(* Properties of the LODs and formats of one asset (SpecMesh)              *)
(***************************************************************************)
Returned == ret # Pending /\ ret.exc = ""

SidecarExists == <<arg.asset_path, arg.asset_id>> \in DOMAIN sidecars

\* the paths listed under some label of a lods mapping
ListedPaths(lods) == UNION {Range(lods[l]) : l \in DOMAIN lods}

\* label is the upper-cased first token of uri that high|lod<digit> matches
\* once lower-cased
IsFirstLodMatch(uri, label) ==
    \E k \in 1..Len(uri) :
        /\ Lower(uri[k]) \in LodPattern
        /\ \A j \in 1..(k - 1) : Lower(uri[j]) \notin LodPattern
        /\ label = <<Upper(uri[k])>>

\* label is the upper-cased text between the last underscore of uri and the
\* dot that follows it (the end of uri when none does)
IsPlantSuffix(uri, label) ==
    \E k \in 1..Len(uri) :
        /\ uri[k] = "_"
        /\ \A j \in (k + 1)..Len(uri) : uri[j] # "_"
        /\ \E e \in k..Len(uri) :
               /\ e = Len(uri) \/ uri[e + 1] = "."
               /\ \A j \in (k + 1)..e : uri[j] # "."
               /\ label = [j \in 1..(e - k) |-> Upper(uri[k + j])]

\* C4: every mesh path listed under a LOD label exists on disk, is listed
\* under that label only, and the label is the one derived from the path's
\* own URI: the first high|lod<digit> match for "3d", the text between the
\* last underscore and the following dot for "3dplant", upper-cased.
C4_LodLabels ==
    Returned =>
        \A label \in DOMAIN ret.lods :
            \A p \in Range(ret.lods[label]) :
                /\ p \in files
                /\ p[1] = arg.asset_path
                /\ \A other \in (DOMAIN ret.lods) \ {label} : p \notin Range(ret.lods[other])
                /\ arg.asset_type = "3d" => IsFirstLodMatch(p[2], label)
                /\ arg.asset_type = "3dplant" => IsPlantSuffix(p[2], label)

\* a "3dplant" asset with two labels, one of them for a URI that the "3d"
\* pattern would have labelled otherwise
C4_Witness ==
    /\ Returned
    /\ arg.asset_type = "3dplant"
    /\ DOMAIN ret.lods = {<<"HIGH">>, <<"LOD0">>}
    /\ ret.lods[<<"HIGH">>] = <<Path(AssetPath, <<"lod1", "_", "high", ".", "fbx">>)>>

\* C5: the formats of a returned record are exactly the extensions of the
\* mesh files listed in its lods mapping, for "3d" and for "3dplant".
C5_FormatsOfLods ==
    Returned => ret.formats = {suffix(p[2]) : p \in ListedPaths(ret.lods)}

\* a "3d" asset with an existing file that matches no LOD pattern, whose
\* extension is therefore not a format
C5_Witness ==
    /\ Returned
    /\ arg.asset_type = "3d"
    /\ Path(AssetPath, <<"rock", ".", "fbx">>) \in files
    /\ "meshes" \in DOMAIN sidecars[<<AssetPath, AssetId>>]
    /\ [uri |-> <<"rock", ".", "fbx">>] \in Range(sidecars[<<AssetPath, AssetId>>].meshes)
    /\ ret.formats = {<<"abc">>}

\* C8: resolve_assets returns a record only for the types "3d" and "3dplant"
\* with an existing sidecar; a missing sidecar raises FileNotFoundError
\* whatever the type, another type raises ValueError, and an outcome is
\* either an exception alone or the whole (textures, lods, formats) record.
C8_ResolveOutcomes ==
    ret # Pending =>
        /\ ~SidecarExists => ret = [exc |-> "FileNotFoundError"]
        /\ SidecarExists /\ arg.asset_type \notin {"3d", "3dplant"}
              => ret = [exc |-> "ValueError"]
        /\ ret.exc = "" => /\ SidecarExists
                           /\ arg.asset_type \in {"3d", "3dplant"}
                           /\ DOMAIN ret = {"exc", "textures", "lods", "formats"}
        /\ ret.exc # "" => DOMAIN ret = {"exc"}

\* an unsupported type without a sidecar: the missing file is what is reported
C8_Witness ==
    /\ ret = [exc |-> "FileNotFoundError"]
    /\ arg.asset_type = "surface"
    /\ ~SidecarExists

(***************************************************************************)
(* Texture inputs                                                          *)
(***************************************************************************)
TxUris ==
    { <<"albedo", "_", "a", ".", "jpg">>,
      <<"normal", "_", "b", ".", "jpg">>,
      <<"albedo", "_", "c", ".", "exr">> }

\* the declared type and colour space of a texture file
TxType(u) == IF u[1] = "albedo" THEN "albedo" ELSE "normal"
TxColorSpace(u) == IF u[1] = "albedo" THEN "sRGB" ELSE "Linear"

TxNames == {"Albedo", "Normal"}
Resolutions == {"2048x2048", "4096x4096"}

TxMaps ==
    {[uri |-> u, name |-> n, resolution |-> r, type |-> TxType(u),
      colorSpace |-> TxColorSpace(u)] : u \in TxUris, n \in TxNames, r \in Resolutions}

TxFiles == {Path(AssetPath, u) : u \in TxUris}

InitTx ==
    /\ NodeInit /\ LibraryInit
    /\ arg \in [asset_type : {"3d", "3dplant"}, asset_id : {AssetId},
                asset_path : {AssetPath}]
    /\ sidecars \in {(<<AssetPath, AssetId>> :> [maps |-> m, models |-> <<>>])
                        : m \in SeqUpTo(TxMaps, MaxMaps)}
    /\ files \in SUBSET TxFiles
    /\ ret = Pending

NextTx == resolve_assets_call

SpecTx == InitTx /\ [][NextTx]_vars

(***************************************************************************)
(* Properties of the textures of one asset (SpecTx)                        *)
(***************************************************************************)
DeclaredMaps == Get(sidecars[<<arg.asset_path, arg.asset_id>>], "maps", <<>>)

MapExists(m) == Path(arg.asset_path, m.uri) \in files

\* the paths of the existing declared maps of a name and resolution, in
\* declaration order
ExistingMapPaths(name, resolution) ==
    LET sel == SelectSeq(DeclaredMaps,
                   LAMBDA m : m.name = name /\ m.resolution = resolution /\ MapExists(m))
    IN  [i \in 1..Len(sel) |-> Path(arg.asset_path, sel[i].uri)]

\* the first existing declared map of a name
FirstExistingMap(name) ==
    DeclaredMaps[Min({i \in 1..Len(DeclaredMaps) :
                         DeclaredMaps[i].name = name /\ MapExists(DeclaredMaps[i])})]

\* a textures mapping that holds, per channel, every resolution and every
\* existing declared file
KeepsAllMaps(textures) ==
    /\ DOMAIN textures = {m.name : m \in {x \in Range(DeclaredMaps) : MapExists(x)}}
    /\ \A name \in DOMAIN textures :
           /\ DOMAIN textures[name].resolution =
                  {m.resolution : m \in {x \in Range(DeclaredMaps) :
                                            x.name = name /\ MapExists(x)}}
           /\ \A r \in DOMAIN textures[name].resolution :
                  textures[name].resolution[r] = ExistingMapPaths(name, r)

\* C6: for a "3d" asset resolved from its maps, each channel holds per
\* resolution all and only the existing declared map files of that name and
\* resolution, in declaration order, with the type and colorSpace of the
\* first existing map of the name; a channel without an existing file is absent.
C6_MapsTextures ==
    Returned /\ arg.asset_type = "3d" =>
        /\ KeepsAllMaps(ret.textures)
        /\ \A name \in DOMAIN ret.textures :
               /\ ret.textures[name].type = FirstExistingMap(name).type
               /\ ret.textures[name].colorSpace = FirstExistingMap(name).colorSpace

\* three maps of one channel and resolution, the first one's file missing:
\* the other two paths are kept, in order, under the second one's type
C6_Witness ==
    /\ Returned /\ arg.asset_type = "3d"
    /\ Len(DeclaredMaps) = 3
    /\ ~MapExists(DeclaredMaps[1])
    /\ DeclaredMaps[1].type # DeclaredMaps[2].type
    /\ DeclaredMaps[2].type # DeclaredMaps[3].type
    /\ DOMAIN ret.textures = {"Albedo"}
    /\ ret.textures["Albedo"].type = DeclaredMaps[2].type
    /\ ret.textures["Albedo"].resolution =
           ("2048x2048" :> <<Path(AssetPath, DeclaredMaps[2].uri),
                             Path(AssetPath, DeclaredMaps[3].uri)>>)

\* C7 as claimed: a "3dplant" asset's channels keep every resolution, and
\* every existing file of a resolution, as those of a "3d" asset do.
C7_PlantKeepsAllMaps ==
    Returned /\ arg.asset_type = "3dplant" => KeepsAllMaps(ret.textures)

(***************************************************************************)
(* "3d" assets with maps and components (SpecTx3d)                         *)
(***************************************************************************)
Formats(us) == [i \in 1..Len(us) |-> [uri |-> us[i]]]

Components ==
    LET a == <<"albedo", "_", "a", ".", "jpg">>
        b == <<"normal", "_", "b", ".", "jpg">>
        c == <<"albedo", "_", "c", ".", "exr">>
    IN  { \* two resolutions under one uris entry
          [name |-> "Albedo", type |-> "albedo", colorSpace |-> "sRGB",
           uris |-> <<[resolutions |->
                        <<[resolution |-> "2048x2048", formats |-> Formats(<<a, c>>)],
                          [resolution |-> "4096x4096", formats |-> Formats(<<c>>)]>>]>>],
          \* one resolution under two uris entries
          [name |-> "Normal", type |-> "normal", colorSpace |-> "Linear",
           uris |-> <<[resolutions |->
                        <<[resolution |-> "2048x2048", formats |-> Formats(<<b>>)]>>],
                      [resolutions |->
                        <<[resolution |-> "2048x2048", formats |-> Formats(<<c>>)]>>]>>],
          \* a second component of the name Albedo
          [name |-> "Albedo", type |-> "diffuse", colorSpace |-> "Linear",
           uris |-> <<[resolutions |->
                        <<[resolution |-> "4096x4096", formats |-> Formats(<<a>>)]>>]>>],
          \* a component without uris
          [name |-> "Bump", type |-> "bump", colorSpace |-> "Linear"] }

\* the maps of these assets: at most one, of resolution 2048x2048
FewMaps == SeqUpTo({m \in TxMaps : m.resolution = "2048x2048"}, 1)

Tx3dAssetData ==
    {[components |-> c] : c \in SeqUpTo(Components, MaxComponents)}
    \cup {[maps |-> m, components |-> c] :
             m \in FewMaps, c \in SeqUpTo(Components, MaxComponents)}
    \cup {[maps |-> m] : m \in FewMaps}

InitTx3d ==
    /\ NodeInit /\ LibraryInit
    /\ arg = [asset_type |-> "3d", asset_id |-> AssetId, asset_path |-> AssetPath]
    /\ sidecars \in {(<<AssetPath, AssetId>> :> d) : d \in Tx3dAssetData}
    /\ files \in SUBSET TxFiles
    /\ ret = Pending

NextTx3d == resolve_assets_call

SpecTx3d == InitTx3d /\ [][NextTx3d]_vars

DeclaredComponents == Get(sidecars[<<arg.asset_path, arg.asset_id>>], "components", <<>>)

\* C10: resolve_3d_tx returns the maps resolution whenever some declared map
\* file exists (that resolution has a channel), and the components resolution
\* otherwise; the record never holds channels of both.
C10_MapsBeforeComponents ==
    Returned =>
        LET from_maps == resolve_3d_tx_maps(arg.asset_path, DeclaredMaps, files)
            from_components ==
                resolve_3d_tx_components(arg.asset_path, DeclaredComponents, files)
        IN  IF \E m \in Range(DeclaredMaps) : MapExists(m)
            THEN from_maps # EmptyDict /\ ret.textures = from_maps
            ELSE from_maps = EmptyDict /\ ret.textures = from_components

\* a declared map whose file is missing, and components with existing files:
\* the components are what is returned
C10_Witness ==
    /\ Returned
    /\ Len(DeclaredMaps) = 1 /\ ~MapExists(DeclaredMaps[1])
    /\ DOMAIN ret.textures = {"Albedo", "Normal"}
    /\ ret.textures["Albedo"].type = "diffuse"

(***************************************************************************)
(* The library on disk and what changes it between loads (Spec)            *)
(***************************************************************************)
Entry(name, type, id, dir, tag) ==
    [name |-> name, type |-> type, id |-> id, path |-> <<type, dir>>,
     preview |-> <<"thumb.png", "preview.png">>, tags |-> <<tag>>]

LibraryEntries ==
    { Entry(<<"r", " ", "k">>, "3d", "id1", "rock_id1", "rock"),
      Entry(<<"f">>, "3dplant", "id2", "fern_id2", "fern"),
      Entry(<<"m">>, "surface", "id3", "moss_id3", "moss") }

Manifests == SeqUpTo(LibraryEntries, MaxAssets)

SidecarPath(type, dir, id) == <<LibraryPath \o <<"Downloaded", type, dir>>, id>>

LibrarySidecars ==
    (SidecarPath("3d", "rock_id1", "id1") :>
        [maps |-> <<[uri |-> <<"albedo", "_", "a", ".", "jpg">>, name |-> "Albedo",
                     resolution |-> "2048x2048", type |-> "albedo",
                     colorSpace |-> "sRGB"]>>,
         meshes |-> <<[uris |-> <<[uri |-> <<"rock", "_", "LOD0", ".", "fbx">>],
                                  [uri |-> <<"rock", "_", "High", ".", "abc">>]>>]>>])
    @@ (SidecarPath("3dplant", "fern_id2", "id2") :>
        [maps |-> <<[uri |-> <<"albedo", "_", "c", ".", "exr">>, name |-> "Albedo",
                     resolution |-> "4096x4096", type |-> "albedo",
                     colorSpace |-> "sRGB"]>>,
         models |-> <<[uri |-> <<"var", "_", "lod0", ".", "fbx">>]>>])
    @@ (SidecarPath("surface", "moss_id3", "id3") :> [maps |-> <<>>])

\* every file a sidecar of the library declares
LibraryFiles ==
    {Path(k[1], u) : k \in DOMAIN LibrarySidecars,
                     u \in MeshUris \cup TxUris \cup {<<"var", "_", "lod0", ".", "fbx">>}}

\* the sidecar that downloads and removals of the "3d" asset add and delete
RockSidecar == SidecarPath("3d", "rock_id1", "id1")

Without(d, k) == [x \in (DOMAIN d) \ {k} |-> d[x]]

Init ==
    /\ NodeInit /\ LibraryInit
    /\ sidecars = LibrarySidecars
    /\ files = LibraryFiles
    /\ arg = [asset_type |-> "3d", asset_id |-> AssetId, asset_path |-> AssetPath]
    /\ ret = Pending

\* the asset manager rewrites the root manifest
write_manifest ==
    /\ \E m \in Manifests : assets_data' = <<m>>
    /\ UNCHANGED <<sidecars, files, hash_path, user_data_path, user_data, parm,
                   background_images, material_library, call, arg, ret>>

\* the library folder is emptied or the path points nowhere
delete_manifest ==
    /\ assets_data # <<>>
    /\ assets_data' = <<>>
    /\ UNCHANGED <<sidecars, files, hash_path, user_data_path, user_data, parm,
                   background_images, material_library, call, arg, ret>>

write_sidecar ==
    /\ RockSidecar \notin DOMAIN sidecars
    /\ sidecars' = Put(sidecars, RockSidecar, LibrarySidecars[RockSidecar])
    /\ UNCHANGED <<assets_data, files, hash_path, user_data_path, user_data, parm,
                   background_images, material_library, call, arg, ret>>

delete_sidecar ==
    /\ RockSidecar \in DOMAIN sidecars
    /\ sidecars' = Without(sidecars, RockSidecar)
    /\ UNCHANGED <<assets_data, files, hash_path, user_data_path, user_data, parm,
                   background_images, material_library, call, arg, ret>>

Next ==
    \/ set_megascans_data
    \/ write_manifest
    \/ delete_manifest
    \/ write_sidecar
    \/ delete_sidecar

Spec == Init /\ [][Next]_vars

(***************************************************************************)
(* Properties of the library load (Spec)                                   *)
(***************************************************************************)
Completed == call.done /\ call.exc = ""

\* C1 as claimed: a load whose manifest hashes as the manifest of the
\* previous load hands no asset to resolve_assets.
C1_UnchangedManifestNotResolved ==
    call.unchanged => call.resolved = <<>>

\* C2 as claimed: after a completed load of a manifest every asset was
\* resolved and the persisted hash is the hash of the manifest read.
C2_HashOfManifestPersisted ==
    Completed /\ call.manifest # <<>> =>
        /\ call.resolved = [i \in 1..Len(call.manifest[1]) |-> call.manifest[1][i].id]
        /\ hash_path = <<sha256(call.manifest[1])>>

\* C9: after a completed load the node has a megascans_user_data entry
\* exactly when the mapping built by that load is not empty, the entry is the
\* JSON of that mapping, and a load that finds no manifest file, or no asset
\* in it, leaves no entry.
C9_UserDataIsThisLoad ==
    Completed =>
        /\ "megascans_user_data" \in DOMAIN user_data <=> call.megascans_data # EmptyDict
        /\ "megascans_user_data" \in DOMAIN user_data =>
               /\ user_data["megascans_user_data"][1] = "json"
               /\ json_loads(user_data["megascans_user_data"]) = call.megascans_data
        /\ (call.manifest = <<>> \/ call.manifest = << <<>> >>) =>
               "megascans_user_data" \notin DOMAIN user_data

\* a load that found no manifest file removed the entry of an earlier load
C9_Witness ==
    /\ Completed
    /\ call.had_entry
    /\ call.manifest = <<>>
    /\ user_data = EmptyDict

(***************************************************************************)
(* Keys of the mapping (SpecKeys): manifests whose entries differ in their *)
(* names, over the characters "a" and " "                                  *)
(***************************************************************************)
NameChars == {"a", " "}

Names == SeqUpTo(NameChars, MaxNameLen)

\* the tag of the i-th entry names its place in the manifest
PlaceTags == <<"first", "second", "third", "fourth">>

KeyManifests ==
    {[i \in 1..Len(names) |-> Entry(names[i], "3d", AssetId, "asset", PlaceTags[i])]
        : names \in SeqUpTo(Names, MaxAssets)}

InitKeys ==
    /\ NodeInit
    /\ hash_path = <<>>
    /\ user_data_path = <<>>
    /\ assets_data \in {<<m>> : m \in KeyManifests}
    /\ sidecars = (<<AssetPath, AssetId>> :> [maps |-> <<>>])
    /\ files = {}
    /\ arg = [asset_type |-> "3d", asset_id |-> AssetId, asset_path |-> AssetPath]
    /\ ret = Pending

NextKeys == ~call.done /\ set_megascans_data

SpecKeys == InitKeys /\ [][NextKeys]_vars

RECURSIVE DropSpaces(_)
DropSpaces(s) ==
    IF s # <<>> /\ Head(s) \in Whitespace THEN DropSpaces(Tail(s)) ELSE s

\* s with each run of whitespace replaced by one underscore
RECURSIVE UnderscoreRuns(_)
UnderscoreRuns(s) ==
    IF s = <<>> THEN <<>>
    ELSE IF Head(s) \in Whitespace THEN <<"_">> \o UnderscoreRuns(DropSpaces(s))
    ELSE <<Head(s)>> \o UnderscoreRuns(Tail(s))

Reverse(s) == [i \in 1..Len(s) |-> s[Len(s) + 1 - i]]

\* s without its leading and trailing whitespace
Strip(s) == Reverse(DropSpaces(Reverse(DropSpaces(s))))

\* the mapping has exactly the keys type::normalized[name]::id of the entries,
\* each record's type, name and id are the three parts of its key, and the
\* record of a key is that of the last entry with the key
KeysAre(normalized) ==
    LET entries == call.manifest[1]
        KeyOf(e) == <<e.type, "::">> \o normalized[e.name] \o <<"::", e.id>>
        built == call.megascans_data
    IN  /\ DOMAIN built = {KeyOf(e) : e \in Range(entries)}
        /\ \A k \in DOMAIN built :
               LET last == Max({i \in 1..Len(entries) : KeyOf(entries[i]) = k})
               IN  /\ k = <<built[k].type, "::">> \o built[k].name \o <<"::", built[k].id>>
                   /\ built[k].tags = entries[last].tags

EntryNames == {e.name : e \in Range(call.manifest[1])}

current_parms_eval(parms) ==
    [name \in {"megascans_asset", "file_format", "render_geo", "proxy_geo", "resolution"}
        |-> parms[name]]

\* file.endswith(f".{file_format}")
endswith(file, file_format) ==
    LET uri == file[2]
    IN  /\ Len(uri) >= 2
        /\ uri[Len(uri) - 1] = "."
        /\ uri[Len(uri)] = file_format

\* get_filtered_files keeping every file of the LOD
get_filtered_files_any_format(lod_list, file_format) == lod_list

get_filtered_files(lod_list, file_format) ==
    SelectSeq(lod_list, LAMBDA file : endswith(file, file_format))

\* the multiparm count is set first, which cuts or extends the instances;
\* an instance is then written only where it differs
set_geo_loader_params(parms, geo_type, geo_files) ==
    LET files_parm == geo_type \o "_files"
        filelist == geo_type \o "_filelist"
        instances == [i \in 1..Len(geo_files) |->
                         IF i <= Len(parms[filelist]) THEN parms[filelist][i] ELSE <<>>]
    IN  [parms EXCEPT
            ![files_parm] = Len(geo_files),
            ![filelist] = [index \in 1..Len(geo_files) |->
                              IF instances[index] # geo_files[index] THEN geo_files[index]
                              ELSE instances[index]]]

\* asset.split("::")[-1] of a mapping key or a menu label
last_component(asset) == asset[Len(asset)]

\* [parm, batch_size].  batch_ids is held split into its words; the
\* stringvalue instances are kept as the set of their values, the mapping's
\* key order not being part of the dict model
set_batch_size(parms, megascans_data) ==
    LET batch_process == parms["enable_batch_process"]
        cleared == [parms EXCEPT !["stringvalues"] = 0, !["stringvalue"] = {}]
        asset_ids == Range(parms["batch_ids"])
        filtered == {asset \in DOMAIN megascans_data :
                        last_component(lower(asset)) \in asset_ids}
        current_asset == current_parms_eval(parms)["megascans_asset"]
    IN  IF batch_process # 0
        THEN IF asset_ids = {} THEN [parm |-> cleared, batch_size |-> 0]
             ELSE [parm |-> [cleared EXCEPT
                                !["stringvalues"] = Cardinality(filtered),
                                !["stringvalue"] =
                                    {last_component(lower(asset)) : asset \in filtered}],
                   batch_size |-> Cardinality(filtered)]
        ELSE [parm |-> [cleared EXCEPT !["stringvalues"] = 1,
                                       !["stringvalue"] = {last_component(current_asset)}],
              batch_size |-> 1]

\* [parm, exc, proceeded]: the parameters after build_geo(kwargs), for the
\* max_index attribute of <node>/sopnet/INDEX
build_geo(parms, node_user_data, max_index) ==
    LET megascans_json == Get(node_user_data, "megascans_user_data", <<>>)
        skipped(p) == [parm |-> p, exc |-> "", proceeded |-> FALSE]
    IN  IF megascans_json = <<>> THEN skipped(parms)
        ELSE IF json_loads(megascans_json) = EmptyDict THEN skipped(parms)
        ELSE
        LET megascans_data == json_loads(megascans_json)
            b == set_batch_size(parms, megascans_data)
        IN  IF ~(b.parm["enable_batch_process"] = 0 \/ b.batch_size > 0)
            THEN skipped(b.parm)
            ELSE
            LET dumped == dump_info(b.parm, megascans_data)
                current_parms == current_parms_eval(dumped)
                raised(p, e) == [parm |-> p, exc |-> e, proceeded |-> TRUE]
            IN  IF current_parms["megascans_asset"] = <<"-----">>
                THEN raised(dumped, "TypeError")
                ELSE
                LET asset_info == megascans_data[current_parms["megascans_asset"]]
                    asset_name == asset_info.name
                    asset_id == asset_info.id
                    file_format == current_parms["file_format"]
                    render_lod == IF dumped["load_original"] = 1
                                     /\ ~dumped["load_original_isDisabled"]
                                  THEN <<"HIGH">>
                                  ELSE current_parms["render_geo"]
                    proxy_lod == current_parms["proxy_geo"]
                IN  IF render_lod \notin DOMAIN asset_info.lods
                    THEN raised(dumped, "KeyError")
                    ELSE
                    LET render_geo_files ==
                            get_filtered_files(asset_info.lods[render_lod], file_format)
                        rendered == set_geo_loader_params(dumped, "render", render_geo_files)
                    IN  IF proxy_lod \notin DOMAIN asset_info.lods
                        THEN raised(rendered, "KeyError")
                        ELSE
                        LET proxy_geo_files ==
                                get_filtered_files(asset_info.lods[proxy_lod], file_format)
                            proxied == set_geo_loader_params(rendered, "proxy",
                                                             proxy_geo_files)
                            var_num == max_index + 1
                        IN  [parm |-> [proxied EXCEPT
                                 !["format_switch"] = IF file_format = "abc" THEN 0 ELSE 1,
                                 !["asset_name"] = asset_name \o <<"_", asset_id>>,
                                 !["var_num_message"] = <<"Number of Variants: ", var_num>>,
                                 !["var_num"] = var_num],
                             exc |-> "", proceeded |-> TRUE]

\* os.path.splitext(texture)[0] + ext: the file with its extension replaced
with_ext(texture, ext) ==
    LET uri == texture[2]
        slashes == Positions(uri, "/")
        start == IF slashes = {} THEN 1 ELSE Max(slashes) + 1
        name == SubSeq(uri, start, Len(uri))
        dots == Positions(name, ".")
        root == IF dots = {} \/ Max(dots) = 1 THEN uri
                ELSE SubSeq(uri, 1, start + Max(dots) - 2)
    IN  <<texture[1], root \o <<".", ext>> >>

\* the .rat file of a texture when there is one, else the texture
filter_tx_file(texture, disk) ==
    LET rat_file == with_ext(texture, "rat")
    IN  IF ~Exists(disk, rat_file) THEN texture ELSE rat_file

\* render_geo_lod in texture, on the posix string of the path
lod_in_texture(render_geo_lod, texture) ==
    Contains(texture[1] \o <<"/">> \o texture[2], render_geo_lod)

\* the texture get_textures picks for one channel: the first of the
\* resolution that names the render LOD, else the first; its .exr when that
\* exists
found_tx(textures, render_geo_lod, disk) ==
    LET matching == SelectSeq(textures, LAMBDA texture : lod_in_texture(render_geo_lod, texture))
        found == IF matching # <<>> THEN matching[1] ELSE textures[1]
        exr_file == with_ext(found, "exr")
    IN  IF Exists(disk, exr_file) THEN exr_file ELSE found

\* [parm, current_textures, exc]: current_textures is kept as the set of its
\* (channel, file, colour space) tuples
get_textures(parms, disk) ==
    IF parms["asset_info"] = <<>>
    THEN [parm |-> parms, current_textures |-> {}, exc |-> "JSONDecodeError"]
    ELSE
    LET textures_dict == json_loads(parms["asset_info"][1]).textures
        render_geo_lod == current_parms_eval(parms)["render_geo"]
        current_res == current_parms_eval(parms)["resolution"]
        picked(tx_type) ==
            found_tx(textures_dict[tx_type].resolution[current_res], render_geo_lod, disk)
        to_generate == [tx_type \in {t \in DOMAIN textures_dict :
                                        filter_tx_file(picked(t), disk) = picked(t)}
                            |-> picked(tx_type)]
        reverted == [parms EXCEPT !["tx_dict"] = <<>>]
    IN  IF \E tx_type \in DOMAIN textures_dict :
               current_res \notin DOMAIN textures_dict[tx_type].resolution
        THEN [parm |-> parms, current_textures |-> {}, exc |-> "KeyError"]
        ELSE [parm |-> IF to_generate # EmptyDict
                       THEN [reverted EXCEPT !["tx_dict"] = <<json_dumps(to_generate)>>]
                       ELSE reverted,
              current_textures |->
                  {<<tx_type, filter_tx_file(picked(tx_type), disk),
                     textures_dict[tx_type].colorSpace>> : tx_type \in DOMAIN textures_dict},
              exc |-> ""]

\* tx_type.upper() / tx_type.lower() of a channel name
tx_upper(tx_type) ==
    CASE tx_type = "Albedo" -> "ALBEDO"
      [] tx_type = "Normal" -> "NORMAL"
      [] OTHER -> tx_type

tx_lower(tx_type) ==
    CASE tx_type = "Albedo" -> "albedo"
      [] tx_type = "Normal" -> "normal"
      [] OTHER -> tx_type

\* the input of mtlxstandard_surface / mtlxdisplacement an image of a channel
\* is wired to; "" for an image left unused
shader_input(tx_type) ==
    CASE tx_lower(tx_type) = "albedo" -> "base_color"
      [] tx_lower(tx_type) = "roughness" -> "specular_roughness"
      [] tx_lower(tx_type) = "normal" -> "normal"
      [] tx_lower(tx_type) = "displacement" -> "displacement"
      [] tx_lower(tx_type) \in {"opacity", "metalness", "specular"} -> tx_lower(tx_type)
      [] OTHER -> ""

\* the mtlximage nodes create_image_files makes in the shader
create_image_files(current_textures) ==
    {[name |-> tx_upper(texture[1]), file |-> texture[2], input |-> shader_input(texture[1])]
        : texture \in current_textures}

\* [parm, material_library, exc] after build_materials(kwargs)
build_materials(parms, matlib, node_user_data, disk) ==
    LET megascans_json == Get(node_user_data, "megascans_user_data", <<>>)
        unchanged == [parm |-> parms, material_library |-> matlib, exc |-> ""]
    IN  IF megascans_json = <<>> THEN unchanged
        ELSE IF json_loads(megascans_json) = EmptyDict THEN unchanged
        ELSE LET t == get_textures(parms, disk)
             IN  IF t.exc # ""
                 THEN [parm |-> t.parm, material_library |-> {}, exc |-> t.exc]
                 ELSE [parm |-> t.parm,
                       material_library |-> create_image_files(t.current_textures),
                       exc |-> ""]

\* the element of a one-element set
Only(S) == CHOOSE x \in S : TRUE

\* the parameter groups of build_asset
material_params ==
    {"megascans_asset", "get_path", "library_path", "reload", "enable_batch_process", "code"}

\* geo_params with resolution listed among them
geo_params_with_resolution ==
    {"load_original", "file_format", "proxy_geo", "render_geo", "resolution"}

geo_params == {"load_original", "file_format", "proxy_geo", "render_geo"}

\* Utilities.cook_tx_pdg(node): the TX PDG network is cooked, which changes
\* none of the parameters
cook_tx_pdg(parms) == parms

\* The calls build_asset makes.  st is [parm, images, material_library,
\* steps, exc]: the node as the calls so far left it, the calls made, in
\* order, and the exception that ended them; a call that raises is the last.
call_show_background_image(st, user_data_file) ==
    [st EXCEPT !.steps = Append(@, "show_background_image"),
               !.images = show_background_image(st.parm, st.images, user_data_file)]

call_build_geo(st, node_user_data, max_index) ==
    IF st.exc # "" THEN st
    ELSE Only({[st EXCEPT !.steps = Append(@, "build_geo"),
                          !.parm = r.parm, !.exc = r.exc] :
                  r \in {build_geo(st.parm, node_user_data, max_index)}})

call_build_materials(st, node_user_data, disk) ==
    IF st.exc # "" THEN st
    ELSE Only({[st EXCEPT !.steps = Append(@, "build_materials"),
                          !.parm = r.parm, !.material_library = r.material_library,
                          !.exc = r.exc] :
                  r \in {build_materials(st.parm, st.material_library, node_user_data, disk)}})

call_revert_tx_dict(st) ==
    IF st.exc # "" THEN st
    ELSE [st EXCEPT !.steps = Append(@, "tx_dict.revertToDefaults"),
                    !.parm = [st.parm EXCEPT !["tx_dict"] = <<>>]]

call_cook(st) ==
    IF st.exc # "" THEN st ELSE [st EXCEPT !.steps = Append(@, "cook")]

call_cook_tx_pdg(st) ==
    IF st.exc # "" \/ st.parm["enable_batch_process"] # 0 THEN st
    ELSE [st EXCEPT !.steps = Append(@, "cook_tx_pdg"), !.parm = cook_tx_pdg(st.parm)]

\* lines 35-52: the builders of the parameter that changed, each called once
\* on the state the call before it left
build_asset_dispatch(parm_name, st0, node_user_data, user_data_file, disk, max_index) ==
    IF parm_name \in material_params
    THEN {call_build_materials(g, node_user_data, disk) :
             g \in {call_build_geo(s, node_user_data, max_index) :
                       s \in {call_show_background_image(st0, user_data_file)}}}
    ELSE IF parm_name \in geo_params
    THEN {IF parm_name = "proxy_geo" THEN call_revert_tx_dict(m) ELSE m :
             m \in {IF parm_name = "render_geo"
                    THEN call_build_materials(g, node_user_data, disk) ELSE g :
                       g \in {call_build_geo(st0, node_user_data, max_index)}}}
    ELSE IF parm_name = "resolution"
    THEN {call_build_materials(st0, node_user_data, disk)}
    ELSE {st0}

\* the node, the calls made and the exception after build_asset(kwargs)
build_asset(parm_name, parms, images, matlib, node_user_data, user_data_file, disk, max_index) ==
    LET st0 == [parm |-> parms, images |-> images, material_library |-> matlib,
                steps |-> <<>>, exc |-> ""]
        current_asset == current_parms_eval(parms)["megascans_asset"]
    IN  IF current_asset = <<"-----">> THEN st0
        ELSE Only({call_cook_tx_pdg(c) :
                      c \in {call_cook(b) :
                                b \in build_asset_dispatch(parm_name, st0, node_user_data,
                                                           user_data_file, disk, max_index)}})

(***************************************************************************)
(* The node a callback finds (SpecBuild, SpecGeo): a library that was      *)
(* loaded, or none, and every setting of the parameters the builders read  *)
(***************************************************************************)
BuildSidecars ==
    (SidecarPath("3d", "rock_id1", "id1") :>
        [maps |-> <<[uri |-> <<"albedo", "_", "a", ".", "jpg">>, name |-> "Albedo",
                     resolution |-> "2048x2048", type |-> "albedo",
                     colorSpace |-> "sRGB"],
                    [uri |-> <<"albedo", "_", "LOD0", ".", "jpg">>, name |-> "Albedo",
                     resolution |-> "2048x2048", type |-> "albedo",
                     colorSpace |-> "sRGB"],
                    [uri |-> <<"normal", "_", "b", ".", "jpg">>, name |-> "Normal",
                     resolution |-> "2048x2048", type |-> "normal",
                     colorSpace |-> "Linear"]>>,
         meshes |-> <<[uris |-> <<[uri |-> <<"rock", "_", "LOD0", ".", "fbx">>],
                                  [uri |-> <<"rock", "_", "LOD0", ".", "abc">>]>>],
                      [uris |-> <<[uri |-> <<"var", "_", "lod0", ".", "fbx">>],
                                  [uri |-> <<"rock", "_", "High", ".", "abc">>]>>]>>])
    @@ (SidecarPath("3dplant", "fern_id2", "id2") :>
        [maps |-> <<[uri |-> <<"albedo", "_", "c", ".", "exr">>, name |-> "Albedo",
                     resolution |-> "4096x4096", type |-> "albedo",
                     colorSpace |-> "sRGB"]>>,
         models |-> <<[uri |-> <<"var", "_", "lod0", ".", "fbx">>]>>])

RockPath == LibraryPath \o <<"Downloaded", "3d", "rock_id1">>
FernPath == LibraryPath \o <<"Downloaded", "3dplant", "fern_id2">>

\* every file the sidecars declare
BuildFiles ==
    {Path(RockPath, u) : u \in {<<"albedo", "_", "a", ".", "jpg">>,
                                <<"albedo", "_", "LOD0", ".", "jpg">>,
                                <<"normal", "_", "b", ".", "jpg">>,
                                <<"rock", "_", "LOD0", ".", "fbx">>,
                                <<"rock", "_", "LOD0", ".", "abc">>,
                                <<"var", "_", "lod0", ".", "fbx">>,
                                <<"rock", "_", "High", ".", "abc">>}}
    \cup {Path(FernPath, u) : u \in {<<"albedo", "_", "c", ".", "exr">>,
                                     <<"var", "_", "lod0", ".", "fbx">>}}

\* converted textures lying next to the declared ones
ConvertedFiles ==
    {Path(RockPath, <<"albedo", "_", "a", ".", "exr">>),
     Path(RockPath, <<"normal", "_", "b", ".", "rat">>)}

BuildManifest ==
    <<Entry(<<"r", " ", "k">>, "3d", "id1", "rock_id1", "rock"),
      Entry(<<"f">>, "3dplant", "id2", "fern_id2", "fern")>>

\* the mapping a load of the library leaves in the node's user data
LoadedData ==
    build_megascans_data(LibraryPath, <<BuildManifest>>, BuildSidecars, BuildFiles).megascans_data

RockKey == asset_key("3d", <<"r", "_", "k">>, "id1")

\* the items of the file_format, render_geo, proxy_geo and resolution menus
FileFormats == {"abc", "fbx"}
RenderLods == {<<"LOD0">>, <<"HIGH">>}
ProxyLods == {<<"LOD0">>, <<"HIGH">>}

\* the words typed into batch_ids
BatchIds == {<<>>, <<"id1", "id9">>}

\* the file lists an earlier build left
StaleFiles ==
    {<<>>, <<Path(RockPath, <<"rock", "_", "LOD0", ".", "fbx">>),
             Path(FernPath, <<"var", "_", "lod0", ".", "fbx">>)>>}

\* the parameters that trigger build_asset
ParmNames == material_params \cup geo_params \cup {"resolution", "show_background_image"}

InitNode ==
    /\ assets_data = <<BuildManifest>>
    /\ sidecars = BuildSidecars
    /\ files \in {BuildFiles, BuildFiles \cup ConvertedFiles}
    /\ hash_path = <<>>
    /\ user_data_path = <<>>
    /\ user_data \in {EmptyDict, set_user_data(EmptyDict, LoadedData)}
    /\ \E selected \in menu_items(user_data),
          file_format \in FileFormats, render_geo \in RenderLods, proxy_geo \in ProxyLods,
          resolution \in Resolutions, load_original \in {0, 1}, disabled \in BOOLEAN,
          enable_batch_process \in {0, 1}, batch_ids \in BatchIds,
          stale \in StaleFiles,
          dumped \in {<<>>} \cup (IF user_data = EmptyDict THEN {}
                                  ELSE {<<json_dumps(LoadedData[RockKey])>>}) :
        parm = [megascans_asset |-> selected,
                show_background_image |-> 1,
                asset_info |-> dumped,
                has_high |-> IF dumped = <<>> THEN 0 ELSE 1,
                file_format |-> file_format,
                render_geo |-> render_geo,
                proxy_geo |-> proxy_geo,
                resolution |-> resolution,
                load_original |-> load_original,
                load_original_isDisabled |-> disabled,
                enable_batch_process |-> enable_batch_process,
                batch_ids |-> batch_ids,
                stringvalues |-> 0,
                stringvalue |-> {},
                render_files |-> Len(stale),
                render_filelist |-> stale,
                proxy_files |-> Len(stale),
                proxy_filelist |-> stale,
                format_switch |-> 0,
                asset_name |-> <<>>,
                var_num_message |-> <<>>,
                var_num |-> 0,
                tx_dict |-> <<>>]
    /\ background_images = [pane \in Panes |-> <<>>]
    /\ material_library = {}
    /\ call = NoCall
    /\ ret = Pending

InitBuild ==
    /\ InitNode
    /\ arg = [parm |-> ""]

\* the callback of a parameter: kwargs["parm"] is the parameter that changed
build_asset_call ==
    /\ ret = Pending
    /\ \E parm_name \in ParmNames, max_index \in {0, 1} :
        \E r \in {build_asset(parm_name, parm, background_images, material_library,
                             user_data, user_data_path, files, max_index)} :
            /\ arg' = [parm |-> parm_name]
            /\ parm' = r.parm
            /\ background_images' = r.images
            /\ material_library' = r.material_library
            /\ ret' = [exc |-> r.exc, steps |-> r.steps]
    /\ UNCHANGED <<assets_data, sidecars, files, hash_path, user_data_path, user_data, call>>

NextBuild == build_asset_call

SpecBuild == InitBuild /\ [][NextBuild]_vars

(***************************************************************************)
(* Properties of the parameter callback (SpecBuild)                        *)
(***************************************************************************)
\* s is the first part of t
IsPrefix(s, t) == Len(s) <= Len(t) /\ s = SubSeq(t, 1, Len(s))

\* the builders the claim gives a parameter, in order
BuildersOf(parm_name) ==
    IF parm_name \in {"megascans_asset", "get_path", "library_path", "reload",
                      "enable_batch_process", "code"}
    THEN <<"show_background_image", "build_geo", "build_materials">>
    ELSE IF parm_name \in {"load_original", "file_format"} THEN <<"build_geo">>
    ELSE IF parm_name = "render_geo" THEN <<"build_geo", "build_materials">>
    ELSE IF parm_name = "proxy_geo" THEN <<"build_geo", "tx_dict.revertToDefaults">>
    ELSE IF parm_name = "resolution" THEN <<"build_materials">>
    ELSE <<>>

\* the calls the claim gives a callback: the builders, the forced cook, and
\* cook_tx_pdg when batch processing is off
CallsOf(parm_name, enable_batch_process) ==
    BuildersOf(parm_name) \o <<"cook">>
    \o (IF enable_batch_process = 0 THEN <<"cook_tx_pdg">> ELSE <<>>)

build_geo_call ==
    /\ ret = Pending
    /\ \E max_index \in {0, 1} :
        \E r \in {build_geo(parm, user_data, max_index)} :
            /\ parm' = r.parm
            /\ ret' = [exc |-> r.exc, proceeded |-> r.proceeded]
    /\ UNCHANGED <<assets_data, sidecars, files, hash_path, user_data_path, user_data,
                   background_images, material_library, call, arg>>

InitGeo ==
    /\ InitNode
    /\ arg = [node |-> "node"]

NextGeo == build_geo_call

SpecGeo == InitGeo /\ [][NextGeo]_vars

(***************************************************************************)
(* Properties of build_geo (SpecGeo)                                       *)
(***************************************************************************)
\* the mapping in the node's user data, EmptyDict when there is none
NodeData ==
    IF "megascans_user_data" \in DOMAIN user_data
    THEN json_loads(user_data["megascans_user_data"]) ELSE EmptyDict

\* the assets of the mapping whose id is among the words of batch_ids
BatchAssets ==
    {asset \in DOMAIN NodeData : Lower(asset[Len(asset)]) \in Range(parm["batch_ids"])}

\* the condition of the claim: there is a mapping, and batch processing is
\* off or the batch is not empty
Proceeds ==
    /\ NodeData # EmptyDict
    /\ parm["enable_batch_process"] = 0 \/ Cardinality(BatchAssets) > 0

\* the LOD the claim gives the render geometry
RenderLod ==
    IF parm["load_original"] = 1 /\ ~parm["load_original_isDisabled"]
    THEN <<"HIGH">> ELSE parm["render_geo"]

\* the files of a LOD of the selected asset whose path ends with
\* ".<file_format>", in the order of the LOD's list
FilesOfFormat(lod) ==
    SelectSeq(NodeData[parm["megascans_asset"]].lods[lod],
              LAMBDA file : /\ Len(file[2]) >= 2
                            /\ SubSeq(file[2], Len(file[2]) - 1, Len(file[2]))
                                   = <<".", parm["file_format"]>>)

OtherImage == Path(LibraryPath, <<"logo", ".", "png">>)

\* the images a pane may hold before the call
PaneImages ==
    SeqUpTo({LoadedData[asset].preview : asset \in DOMAIN LoadedData} \cup {OtherImage},
            MaxImages)

InitImage ==
    /\ assets_data = <<BuildManifest>>
    /\ sidecars = BuildSidecars
    /\ files = BuildFiles
    /\ hash_path = <<>>
    /\ user_data_path \in {<<>>, <<json_dumps(LoadedData)>>}
    /\ user_data = set_user_data(EmptyDict, LoadedData)
    /\ \E selected \in menu_items(user_data), show \in {0, 1},
          dumped \in {<<>>} \cup {<<json_dumps(LoadedData[asset])>> : asset \in DOMAIN LoadedData} :
        parm = [megascans_asset |-> selected, show_background_image |-> show,
                asset_info |-> dumped, has_high |-> 0]
    /\ background_images \in [Panes -> PaneImages]
    /\ material_library = {}
    /\ call = NoCall
    /\ arg = [node |-> "node"]
    /\ ret = Pending

\* a direct call of show_background_image(node)
show_background_image_call ==
    /\ ret = Pending
    /\ background_images' = show_background_image(parm, background_images, user_data_path)
    /\ ret' = [exc |-> ""]
    /\ UNCHANGED <<assets_data, sidecars, files, hash_path, user_data_path, user_data,
                   parm, material_library, call, arg>>

NextImage == show_background_image_call

SpecImage == InitImage /\ [][NextImage]_vars

\* the preview of the selected asset in the mapping the call reads (the file
\* at user_data_path), <<>> when there is no mapping or no such asset
SelectedPreview ==
    IF user_data_path = <<>> THEN <<>>
    ELSE IF parm["megascans_asset"] \notin DOMAIN json_loads(user_data_path[1]) THEN <<>>
    ELSE <<json_loads(user_data_path[1])[parm["megascans_asset"]].preview>>

\* the preview of the asset last dumped into asset_info
DumpedPreview ==
    IF parm["asset_info"] = <<>> THEN <<>>
    ELSE <<json_loads(parm["asset_info"][1]).preview>>

\* the pane holds an image of that path
Shows(pane, preview) ==
    \E i \in 1..Len(background_images[pane]) : <<background_images[pane][i]>> = preview

====
